---- MODULE Spec2Model ----
(***************************************************************************)
(* Context-Api: three React Context API examples.                          *)
(*                                                                         *)
(*   localStorage   the todo list kept in React state and mirrored to      *)
(*                  localStorage["todos"] by two effects (Spec)            *)
(*                  (SpecMount: the mount alone, effects run once or twice;*)
(*                   SpecBatch: several operations in one event callback)  *)
(*   01contextApi   Login / Profile over UserContext (SpecAuth)            *)
(*   themeSwitcher  ThemeBtn over themeContext and the class of the html   *)
(*                  element (SpecTheme)                                    *)
(*                                                                         *)
(* The todo list operations live in localStorage/src/App.jsx, which is not *)
(* part of the sources at hand; TodoContext.js only declares them.  They   *)
(* are modelled from the specification's section 4.1 and the README.       *)
(***************************************************************************)
EXTENDS Integers, Sequences, FiniteSets, TLC

VARIABLES
    todos,      \* the React state `todos` (latest value, queued updates applied)
    rendered,   \* the value of `todos` captured by the last committed render
    slot,       \* localStorage entry "todos": absent, or a JSON text
    pc,         \* position of the todo app in the mount / event / render cycle
    dirty,      \* a state update is queued and the next render is outstanding
    now,        \* Date.now()
    reads,      \* number of localStorage.getItem("todos") calls so far
    lastOp,     \* history: the last list operation issued and its arguments
    prev,       \* history: the list that operation was applied to
    stored,     \* history: what the slot held when the app was mounted,
                \* kept until the first list operation
    username,   \* Login: useState('') username field
    password,   \* Login: useState('') password field
    user,       \* UserContext: the user held by the provider
    profile,    \* what Profile currently displays
    submitted,  \* history: the username field at the last submit
    themeMode,  \* themeSwitcher App: the themeMode state
    htmlClass,  \* document.querySelector('html').classList
    provided,   \* ThemeBtn is rendered below a ThemeProvider value
    checkbox,   \* the checked attribute ThemeBtn rendered
    themePending, \* the theme effect is scheduled and has not run yet
    changes,    \* history: the checked values of the change events so far
    queue,      \* state updaters queued by the running event callback
    base,       \* history: the list when that callback started
    issued,     \* history: the operations that callback issued, in order
    remount     \* the mount effects are still to be run a second time

todoVars == <<todos, rendered, slot, pc, dirty, now, reads, lastOp, prev, stored>>
authVars == <<username, password, user, profile, submitted>>
themeVars == <<themeMode, htmlClass, provided, checkbox, themePending, changes>>
batchVars == <<queue, base, issued>>
vars == <<todos, rendered, slot, pc, dirty, now, reads, lastOp, prev, stored,
          username, password, user, profile, submitted,
          themeMode, htmlClass, provided, checkbox, themePending, changes,
          queue, base, issued, remount>>
outsideTodo == <<authVars, themeVars, batchVars, remount>>
outsideAuth == <<todoVars, themeVars, batchVars, remount>>
outsideTheme == <<todoVars, authVars, batchVars, remount>>

----------------------------------------------------------------------------
(* Bounds *)

MaxLen == 2        \* longest in-memory list the model lets add() build
MaxStored == 2     \* longest list (and largest timestamp) of the earlier session
MaxTicks == 1      \* clock ticks the session lasts
MaxChanges == 5    \* change events of the theme toggle
MaxBatch == 2      \* list operations one event callback issues

Msgs == {"", "a"}
Names == {"", "a", "b", "c", "d"}

FirstNow == MaxStored + 1
Ids == 1..(FirstNow + MaxTicks)

----------------------------------------------------------------------------
(* JavaScript values, as far as the load effect can tell them apart *)

JsNull == [kind |-> "null", arr |-> <<>>, str |-> "", num |-> 0]
JsNumber(n) == [kind |-> "number", arr |-> <<>>, str |-> "", num |-> n]
JsString(s) == [kind |-> "string", arr |-> <<>>, str |-> s, num |-> 0]
JsObject == [kind |-> "object", arr |-> <<>>, str |-> "", num |-> 0]
JsArray(xs) == [kind |-> "array", arr |-> xs, str |-> "", num |-> 0]

\* !!v
Truthy(v) ==
    CASE v.kind = "null" -> FALSE
      [] v.kind = "number" -> v.num # 0
      [] v.kind = "string" -> v.str # ""
      [] OTHER -> TRUE

StrLen(s) == IF s = "" THEN 0 ELSE 1

\* variant: the load test written as result.length > 1
LengthPositive_offByOne(v) ==
    CASE v.kind = "array" -> Len(v.arr) > 1
      [] v.kind = "string" -> StrLen(v.str) > 1
      [] OTHER -> FALSE

\* v.length > 0 ; undefined > 0 is false
LengthPositive(v) ==
    CASE v.kind = "array" -> Len(v.arr) > 0
      [] v.kind = "string" -> StrLen(v.str) > 0
      [] OTHER -> FALSE

----------------------------------------------------------------------------
(* JSON texts: sequences of lexemes (commas and colons left out) *)

Tok(t) == [t |-> t, n |-> 0, s |-> ""]
TNum(n) == [t |-> "num", n |-> n, s |-> ""]
TStr(s) == [t |-> "str", n |-> 0, s |-> s]
TKey(s) == [t |-> "key", n |-> 0, s |-> s]
TBool(b) == [t |-> "bool", n |-> IF b THEN 1 ELSE 0, s |-> ""]

RecordWidth == 8

\* variant: a serialisation that leaves the completion flag behind
RecordTokens_dropsFlag(r) ==
    << Tok("{"), TKey("id"), TNum(r.id), TKey("msg"), TStr(r.msg),
       TKey("isCompleted"), TBool(FALSE), Tok("}") >>

RecordTokens(r) ==
    << Tok("{"), TKey("id"), TNum(r.id), TKey("msg"), TStr(r.msg),
       TKey("isCompleted"), TBool(r.isCompleted), Tok("}") >>

ArrayTokens(xs) ==
    LET n == Len(xs)
        total == 2 + RecordWidth * n
    IN [j \in 1..total |->
          IF j = 1 THEN Tok("[")
          ELSE IF j = total THEN Tok("]")
          ELSE RecordTokens(xs[((j - 2) \div RecordWidth) + 1])[((j - 2) % RecordWidth) + 1]]

JSONstringify(v) ==
    CASE v.kind = "null" -> << Tok("null") >>
      [] v.kind = "number" -> << TNum(v.num) >>
      [] v.kind = "string" -> << TStr(v.str) >>
      [] v.kind = "object" -> << Tok("{"), Tok("}") >>
      [] OTHER -> ArrayTokens(v.arr)

IsRecordAt(text, i) ==
    /\ text[i] = Tok("{")
    /\ text[i + 1] = TKey("id")
    /\ text[i + 2].t = "num"
    /\ text[i + 3] = TKey("msg")
    /\ text[i + 4].t = "str"
    /\ text[i + 5] = TKey("isCompleted")
    /\ text[i + 6].t = "bool"
    /\ text[i + 7] = Tok("}")

RecordAt(text, i) ==
    [id |-> text[i + 2].n, msg |-> text[i + 4].s, isCompleted |-> (text[i + 6].n = 1)]

IsArrayText(text) ==
    /\ Len(text) >= 2
    /\ text[1] = Tok("[")
    /\ text[Len(text)] = Tok("]")
    /\ (Len(text) - 2) % RecordWidth = 0
    /\ \A k \in 1..((Len(text) - 2) \div RecordWidth) :
          IsRecordAt(text, 2 + RecordWidth * (k - 1))

Thrown == [ok |-> FALSE, val |-> JsNull]
Parsed(v) == [ok |-> TRUE, val |-> v]

\* JSON.parse of a text; ok = FALSE stands for the SyntaxError it throws
ParseText(text) ==
    IF Len(text) = 1 /\ text[1] = Tok("null") THEN Parsed(JsNull)
    ELSE IF Len(text) = 1 /\ text[1].t = "num" THEN Parsed(JsNumber(text[1].n))
    ELSE IF Len(text) = 1 /\ text[1].t = "str" THEN Parsed(JsString(text[1].s))
    ELSE IF text = << Tok("{"), Tok("}") >> THEN Parsed(JsObject)
    ELSE IF IsArrayText(text)
         THEN Parsed(JsArray([k \in 1..((Len(text) - 2) \div RecordWidth) |->
                                 RecordAt(text, 2 + RecordWidth * (k - 1))]))
    ELSE Thrown

\* JSON.parse(localStorage.getItem("todos")): getItem gives null for a missing
\* key and JSON.parse(null) parses the text "null"
JSONparse(item) ==
    IF item.present THEN ParseText(item.text) ELSE Parsed(JsNull)

Absent == [present |-> FALSE, text |-> <<>>]
Item(text) == [present |-> TRUE, text |-> text]

----------------------------------------------------------------------------
(* The list operations *)

NoOp == [op |-> "none", id |-> 0, msg |-> "", isCompleted |-> FALSE, hasId |-> FALSE, patchId |-> 0]

Patches == [hasId : BOOLEAN, patchId : {1}, msg : Msgs, isCompleted : BOOLEAN]

\* variant: the new record is put in front
addTodo_prepend(list, msg, t) ==
    <<[id |-> t, msg |-> msg, isCompleted |-> FALSE]>> \o list

addTodo(list, msg, t) ==
    Append(list, [id |-> t, msg |-> msg, isCompleted |-> FALSE])

\* variant: an update of an unknown id inserts the record
updateTodo_upsert(list, id, patch) ==
    IF \E i \in DOMAIN list : list[i].id = id
    THEN [i \in DOMAIN list |->
            IF list[i].id = id
            THEN [id |-> id, msg |-> patch.msg, isCompleted |-> patch.isCompleted]
            ELSE list[i]]
    ELSE Append(list, [id |-> id, msg |-> patch.msg, isCompleted |-> patch.isCompleted])

updateTodo(list, id, patch) ==
    [i \in DOMAIN list |->
        IF list[i].id = id
        THEN [id |-> id, msg |-> patch.msg, isCompleted |-> patch.isCompleted]
        ELSE list[i]]

deleteTodo(list, id) ==
    SelectSeq(list, LAMBDA r : r.id # id)

completeTodo(list, id) ==
    [i \in DOMAIN list |->
        IF list[i].id = id
        THEN [list[i] EXCEPT !.isCompleted = ~list[i].isCompleted]
        ELSE list[i]]

----------------------------------------------------------------------------
(* What the earlier session left in the slot *)

RECURSIVE Increasing(_)
Increasing(xs) ==
    IF Len(xs) < 2 THEN TRUE
    ELSE xs[1].id < xs[2].id /\ Increasing(Tail(xs))

StoredRecords == [id : 1..MaxStored, msg : Msgs, isCompleted : BOOLEAN]

StoredLists ==
    UNION { { xs \in [1..n -> StoredRecords] : Increasing(xs) } : n \in 0..MaxStored }

StoredValues ==
    { [kind |-> "list", list |-> xs] : xs \in StoredLists }
    \cup { [kind |-> k, list |-> <<>>] :
             k \in {"absent", "nonjson", "null", "number", "string", "emptystring", "object"} }

\* a text cut off in the middle of an array: not JSON
TruncatedText == << Tok("["), Tok("{") >>

SlotOf(s) ==
    CASE s.kind = "absent" -> Absent
      [] s.kind = "list" -> Item(JSONstringify(JsArray(s.list)))
      [] s.kind = "nonjson" -> Item(TruncatedText)
      [] s.kind = "null" -> Item(<< Tok("null") >>)
      [] s.kind = "number" -> Item(<< TNum(7) >>)
      [] s.kind = "string" -> Item(<< TStr("a") >>)
      [] s.kind = "emptystring" -> Item(<< TStr("") >>)
      [] OTHER -> Item(<< Tok("{"), Tok("}") >>)

----------------------------------------------------------------------------
(* The todo app *)

\* the user the provider starts with
InitialUser == JsNull

PleaseLogin == [text |-> "Please Login", name |-> ""]
Welcome(name) == [text |-> "Welocome, ", name |-> name]

\* variant: the test written as user === null
Profile_nullTest(u) ==
    IF u.kind = "null" THEN PleaseLogin ELSE Welcome(u.str)

\* if(!user) return <div>Please Login</div> ; return <div>Welocome, {user}</div>
Profile(u) ==
    IF ~Truthy(u) THEN PleaseLogin ELSE Welcome(u.str)

NotSubmitted == [done |-> FALSE, name |-> ""]

AuthIdle ==
    /\ username = ""
    /\ password = ""
    /\ user = InitialUser
    /\ profile = Profile(InitialUser)
    /\ submitted = NotSubmitted

\* themeSwitcher App: the themeMode state starts as "light"
InitialThemeMode == "light"

\* createContext({ themeMode: "loght", darkMode: ()=>{}, lightMode: ()=>{} })
themeContext == [themeMode |-> "loght"]

\* useTheme(): the provider's value, or the context default without one
useTheme(hasProvider, mode) ==
    IF hasProvider THEN [themeMode |-> mode] ELSE themeContext

ThemeIdle ==
    /\ themeMode = InitialThemeMode
    /\ htmlClass = {}
    /\ provided = TRUE
    /\ checkbox = (useTheme(TRUE, InitialThemeMode).themeMode = "dark")
    /\ themePending = TRUE
    /\ changes = <<>>

BatchIdle ==
    /\ queue = <<>>
    /\ base = <<>>
    /\ issued = <<>>

\* the first render of the todo app, over whatever the slot holds
TodoMount ==
    /\ todos = JsArray(<<>>)
    /\ rendered = JsArray(<<>>)
    /\ stored \in StoredValues
    /\ slot = SlotOf(stored)
    /\ pc = "mount_load"
    /\ dirty = FALSE
    /\ now = FirstNow
    /\ reads = 0
    /\ lastOp = NoOp
    /\ prev = <<>>

Init ==
    /\ ThemeIdle
    /\ BatchIdle
    /\ remount = FALSE
    /\ TodoMount
    /\ AuthIdle

\* useEffect(() => { const result = JSON.parse(localStorage.getItem("todos"));
\*                   if (result && result.length > 0) setTodos(result) }, [])
LoadEffect ==
    /\ pc = "mount_load"
    /\ reads' = reads + 1
    /\ LET result == JSONparse(slot)
       IN IF ~result.ok
          THEN /\ pc' = "crashed"
               /\ UNCHANGED <<todos, dirty>>
          ELSE /\ pc' = "mount_save"
               /\ IF Truthy(result.val) /\ LengthPositive(result.val)
                  THEN todos' = result.val /\ dirty' = TRUE
                  ELSE UNCHANGED <<todos, dirty>>
    /\ UNCHANGED <<rendered, slot, now, lastOp, prev, stored>>
    /\ UNCHANGED outsideTodo

\* variant: the save effect skips an empty list
SaveEffect_skipsEmpty ==
    /\ pc \in {"mount_save", "effects"}
    /\ slot' = IF Len(rendered.arr) > 0 THEN Item(JSONstringify(rendered)) ELSE slot
    /\ pc' = IF dirty THEN "rerender" ELSE "idle"
    /\ UNCHANGED <<todos, rendered, dirty, now, reads, lastOp, prev, stored>>
    /\ UNCHANGED outsideTodo

\* useEffect(() => { localStorage.setItem("todos", JSON.stringify(todos)) }, [todos])
SaveEffect ==
    /\ pc \in {"mount_save", "effects"}
    /\ slot' = Item(JSONstringify(rendered))
    /\ pc' = IF dirty THEN "rerender" ELSE "idle"
    /\ UNCHANGED <<todos, rendered, dirty, now, reads, lastOp, prev, stored>>
    /\ UNCHANGED outsideTodo

\* variant: the save effect declared with an empty dependency array, so a
\* re-render does not schedule it
Render_noEffect ==
    /\ pc = "rerender"
    /\ rendered' = todos
    /\ dirty' = FALSE
    /\ pc' = "idle"
    /\ UNCHANGED <<todos, slot, now, reads, lastOp, prev, stored>>
    /\ UNCHANGED outsideTodo

\* the render that follows queued state updates; its commit schedules the
\* save effect because `todos` is a new value
Render ==
    /\ pc = "rerender"
    /\ rendered' = todos
    /\ dirty' = FALSE
    /\ pc' = "effects"
    /\ UNCHANGED <<todos, slot, now, reads, lastOp, prev, stored>>
    /\ UNCHANGED outsideTodo

\* a UI event callback runs between commits, on a list
CanCall ==
    /\ pc = "idle"
    /\ todos.kind = "array"

Forgotten == [kind |-> "forgotten", list |-> <<>>]

Apply(op, result) ==
    /\ prev' = todos.arr
    /\ todos' = JsArray(result)
    /\ lastOp' = op
    /\ dirty' = TRUE
    /\ pc' = "rerender"
    /\ stored' = Forgotten
    /\ UNCHANGED <<rendered, slot, now, reads>>
    /\ UNCHANGED outsideTodo

AddTodo ==
    /\ CanCall
    /\ Len(todos.arr) < MaxLen
    /\ \E m \in Msgs :
         Apply([NoOp EXCEPT !.op = "add", !.msg = m], addTodo(todos.arr, m, now))

UpdateTodo ==
    /\ CanCall
    /\ \E id \in Ids, p \in Patches :
         Apply([op |-> "update", id |-> id, msg |-> p.msg, isCompleted |-> p.isCompleted,
                hasId |-> p.hasId, patchId |-> p.patchId],
               updateTodo(todos.arr, id, p))

DeleteTodo ==
    /\ CanCall
    /\ \E id \in Ids :
         Apply([NoOp EXCEPT !.op = "delete", !.id = id], deleteTodo(todos.arr, id))

CompleteTodo ==
    /\ CanCall
    /\ \E id \in Ids :
         Apply([NoOp EXCEPT !.op = "toggle", !.id = id], completeTodo(todos.arr, id))

Tick ==
    /\ pc = "idle"
    /\ now < FirstNow + MaxTicks
    /\ now' = now + 1
    /\ UNCHANGED <<todos, rendered, slot, pc, dirty, reads, lastOp, prev, stored>>
    /\ UNCHANGED outsideTodo

Next ==
    \/ LoadEffect
    \/ SaveEffect
    \/ Render
    \/ AddTodo
    \/ UpdateTodo
    \/ DeleteTodo
    \/ CompleteTodo
    \/ Tick

Spec == Init /\ [][Next]_vars

----------------------------------------------------------------------------
(* The mount of the todo app alone, its effects run once or twice in a row *)

InitMount ==
    /\ TodoMount
    /\ remount \in BOOLEAN
    /\ AuthIdle
    /\ ThemeIdle
    /\ BatchIdle

\* the mount effects are run again, before the queued state update renders
Remount ==
    /\ remount
    /\ pc \in {"rerender", "idle"}
    /\ pc' = "mount_load"
    /\ remount' = FALSE
    /\ UNCHANGED <<todos, rendered, slot, dirty, now, reads, lastOp, prev, stored>>
    /\ UNCHANGED <<authVars, themeVars, batchVars>>

MountRender ==
    /\ ~remount
    /\ Render

NextMount ==
    \/ LoadEffect
    \/ SaveEffect
    \/ Remount
    \/ MountRender

SpecMount == InitMount /\ [][NextMount]_vars

----------------------------------------------------------------------------
(* Event callbacks that issue several list operations.  Each operation      *)
(* queues a state updater; the render that follows the callback runs the    *)
(* queued updaters in order, each on the result of the one before.          *)

BatchIds == {1, FirstNow}

BatchPatch == [hasId |-> FALSE, patchId |-> 1, msg |-> "a", isCompleted |-> TRUE]

BatchStartLists == { xs \in StoredLists : Len(xs) <= 1 }

\* the updater an operation hands to setTodos
Updater(op, list) ==
    CASE op.op = "add" -> addTodo(list, op.msg, op.id)
      [] op.op = "update" -> updateTodo(list, op.id, op)
      [] op.op = "delete" -> deleteTodo(list, op.id)
      [] op.op = "toggle" -> completeTodo(list, op.id)
      [] OTHER -> list

\* variant: every operation computes the new list from the rendered list
\* (setTodos(value) instead of an updater), so the last one wins
ProcessQueue_stale(list, q) ==
    IF q = <<>> THEN list ELSE Updater(q[Len(q)], list)

RECURSIVE ProcessQueue(_, _)
ProcessQueue(list, q) ==
    IF q = <<>> THEN list ELSE ProcessQueue(Updater(q[1], list), Tail(q))

\* the app after its mount, with the list the slot held
InitBatch ==
    /\ \E xs \in BatchStartLists :
          /\ todos = JsArray(xs)
          /\ rendered = JsArray(xs)
          /\ stored = [kind |-> "list", list |-> xs]
          /\ slot = Item(JSONstringify(JsArray(xs)))
    /\ pc = "idle"
    /\ dirty = FALSE
    /\ now = FirstNow
    /\ reads = 1
    /\ lastOp = NoOp
    /\ prev = <<>>
    /\ remount = FALSE
    /\ BatchIdle
    /\ AuthIdle
    /\ ThemeIdle

Enqueue(op) ==
    /\ pc \in {"idle", "batch"}
    /\ Len(queue) < MaxBatch
    /\ queue' = Append(queue, op)
    /\ issued' = IF pc = "idle" THEN <<op>> ELSE Append(issued, op)
    /\ base' = IF pc = "idle" THEN todos.arr ELSE base
    /\ dirty' = TRUE
    /\ pc' = "batch"
    /\ UNCHANGED <<todos, rendered, slot, now, reads, lastOp, prev, stored>>
    /\ UNCHANGED <<authVars, themeVars, remount>>

BatchAdd ==
    /\ Len(todos.arr) + Len(queue) < MaxLen
    /\ \E m \in Msgs : Enqueue([NoOp EXCEPT !.op = "add", !.id = now, !.msg = m])

BatchUpdate ==
    \E id \in BatchIds :
        Enqueue([op |-> "update", id |-> id, msg |-> BatchPatch.msg,
                 isCompleted |-> BatchPatch.isCompleted,
                 hasId |-> BatchPatch.hasId, patchId |-> BatchPatch.patchId])

BatchDelete ==
    \E id \in BatchIds : Enqueue([NoOp EXCEPT !.op = "delete", !.id = id])

BatchComplete ==
    \E id \in BatchIds : Enqueue([NoOp EXCEPT !.op = "toggle", !.id = id])

\* the render after the callback: the queued updaters run in order
BatchRender ==
    /\ pc = "batch"
    /\ todos' = JsArray(ProcessQueue(todos.arr, queue))
    /\ rendered' = todos'
    /\ queue' = <<>>
    /\ dirty' = FALSE
    /\ pc' = "effects"
    /\ UNCHANGED <<slot, now, reads, lastOp, prev, stored, base, issued>>
    /\ UNCHANGED <<authVars, themeVars, remount>>

NextBatch ==
    \/ BatchAdd
    \/ BatchUpdate
    \/ BatchDelete
    \/ BatchComplete
    \/ BatchRender
    \/ SaveEffect

SpecBatch == InitBatch /\ [][NextBatch]_vars

----------------------------------------------------------------------------
(* The authentication demo *)

TodoIdle ==
    /\ todos = JsArray(<<>>)
    /\ rendered = JsArray(<<>>)
    /\ stored = [kind |-> "absent", list |-> <<>>]
    /\ slot = Absent
    /\ pc = "mount_load"
    /\ dirty = FALSE
    /\ now = FirstNow
    /\ reads = 0
    /\ lastOp = NoOp
    /\ prev = <<>>

InitAuth ==
    /\ AuthIdle
    /\ TodoIdle
    /\ ThemeIdle
    /\ BatchIdle
    /\ remount = FALSE

\* onChange={(e)=> setUsername(e.target.value)}
SetUsername ==
    /\ \E v \in Names : username' = v
    /\ UNCHANGED <<password, user, profile, submitted>>
    /\ UNCHANGED outsideAuth

\* onChange={(e)=> setPassword(e.target.value)}
SetPassword ==
    /\ \E v \in Names : password' = v
    /\ UNCHANGED <<username, user, profile, submitted>>
    /\ UNCHANGED outsideAuth

\* handleSubmit: e.preventDefault(); setUser(username); the provider's new
\* value re-renders Profile
handleSubmit ==
    /\ user' = JsString(username)
    /\ profile' = Profile(user')
    /\ submitted' = [done |-> TRUE, name |-> username]
    /\ UNCHANGED <<username, password>>
    /\ UNCHANGED outsideAuth

NextAuth ==
    \/ SetUsername
    \/ SetPassword
    \/ handleSubmit

SpecAuth == InitAuth /\ [][NextAuth]_vars

----------------------------------------------------------------------------
(* The theme switcher *)

\* the provider's darkMode sets the state; the context default is ()=>{}
darkMode(hasProvider, mode) == IF hasProvider THEN "dark" ELSE mode

\* the provider's lightMode sets the state; the context default is ()=>{}
lightMode(hasProvider, mode) == IF hasProvider THEN "light" ELSE mode

\* variant: the two branches exchanged
onChangeBtn_swapped(darkModeStatus, hasProvider, mode) ==
    IF darkModeStatus THEN lightMode(hasProvider, mode) ELSE darkMode(hasProvider, mode)

\* const darkModeStatus = e.currentTarget.checked;
\* if (darkModeStatus) darkMode(); else lightMode();
onChangeBtn(darkModeStatus, hasProvider, mode) ==
    IF darkModeStatus THEN darkMode(hasProvider, mode) ELSE lightMode(hasProvider, mode)

\* variant: the effect adds the class without removing the old one
applyTheme_noRemove(classes, mode) ==
    classes \cup {mode}

\* classList.remove('light', 'dark'); classList.add(themeMode)
applyTheme(classes, mode) ==
    (classes \ {"light", "dark"}) \cup {mode}

InitTheme ==
    /\ themeMode = InitialThemeMode
    /\ htmlClass = {}
    /\ provided \in BOOLEAN
    /\ checkbox = (useTheme(provided, InitialThemeMode).themeMode = "dark")
    /\ themePending = TRUE
    /\ changes = <<>>
    /\ TodoIdle
    /\ AuthIdle
    /\ BatchIdle
    /\ remount = FALSE

\* a change event of the checkbox; the state update re-renders ThemeBtn and,
\* when themeMode is a new value, schedules the theme effect
ChangeToggle ==
    /\ ~themePending
    /\ Len(changes) < MaxChanges
    /\ \E c \in BOOLEAN :
         LET next == onChangeBtn(c, provided, themeMode)
         IN /\ themeMode' = next
            /\ checkbox' = (useTheme(provided, next).themeMode = "dark")
            /\ themePending' = (next # themeMode)
            /\ changes' = Append(changes, c)
    /\ UNCHANGED <<htmlClass, provided>>
    /\ UNCHANGED outsideTheme

\* useEffect(() => { ...classList.remove('light', 'dark');
\*                   ...classList.add(themeMode) }, [themeMode])
ThemeEffect ==
    /\ themePending
    /\ htmlClass' = applyTheme(htmlClass, themeMode)
    /\ themePending' = FALSE
    /\ UNCHANGED <<themeMode, provided, checkbox, changes>>
    /\ UNCHANGED outsideTheme

NextTheme ==
    \/ ChangeToggle
    \/ ThemeEffect

SpecTheme == InitTheme /\ [][NextTheme]_vars

----------------------------------------------------------------------------
(* Properties of the todo store (checked under Spec) *)

HasId(list, id) == \E i \in DOMAIN list : list[i].id = id

Started == pc \in {"mount_save", "rerender", "effects", "idle"}

\* C1: add(t) yields a list one longer than the list it was applied to, whose
\* first len(L) elements are those of L in order and whose last element
\* carries the text t (the empty text included) and is not completed.
AddAppends ==
    lastOp.op = "add" =>
        /\ todos.kind = "array"
        /\ Len(todos.arr) = Len(prev) + 1
        /\ \A i \in 1..Len(prev) : todos.arr[i] = prev[i]
        /\ todos.arr[Len(prev) + 1].msg = lastOp.msg
        /\ todos.arr[Len(prev) + 1].isCompleted = FALSE

AddAppendsWitness ==
    /\ lastOp.op = "add"
    /\ lastOp.msg = ""
    /\ Len(prev) >= 1
    /\ Len(todos.arr) = Len(prev) + 1

\* C2: toggleComplete(X) on a list holding a record with id X negates
\* isCompleted of exactly that record, leaves its id and text, the length, the
\* order and every other record unchanged, and applied twice gives the
\* original list back.
ToggleFlipsExactlyThatRecord ==
    (lastOp.op = "toggle" /\ HasId(prev, lastOp.id)) =>
        /\ Len(todos.arr) = Len(prev)
        /\ \E k \in DOMAIN prev :
              /\ prev[k].id = lastOp.id
              /\ todos.arr[k] = [prev[k] EXCEPT !.isCompleted = ~prev[k].isCompleted]
              /\ \A j \in DOMAIN prev \ {k} : todos.arr[j] = prev[j]
        /\ completeTodo(todos.arr, lastOp.id) = prev

\* C3: delete(X) on a list holding a record with id X yields a list of length
\* len(L)-1 without a record of id X and with the other records in their
\* relative order; on a list without such a record it yields L.
DeleteRemovesThatRecord ==
    lastOp.op = "delete" =>
        IF HasId(prev, lastOp.id)
        THEN /\ Len(todos.arr) = Len(prev) - 1
             /\ ~HasId(todos.arr, lastOp.id)
             /\ \E k \in DOMAIN prev :
                   /\ prev[k].id = lastOp.id
                   /\ \A j \in DOMAIN todos.arr :
                         todos.arr[j] = IF j < k THEN prev[j] ELSE prev[j + 1]
        ELSE todos.arr = prev

\* C4: update(X, patch) on a list holding a record with id X replaces only
\* that record's non-id fields by the patch's: the record at that position
\* keeps id X whatever id the patch carries, and the length, the order and
\* all other records are unchanged.
UpdateReplacesThatRecord ==
    (lastOp.op = "update" /\ HasId(prev, lastOp.id)) =>
        /\ Len(todos.arr) = Len(prev)
        /\ \E k \in DOMAIN prev :
              /\ prev[k].id = lastOp.id
              /\ todos.arr[k] = [id |-> lastOp.id, msg |-> lastOp.msg,
                                 isCompleted |-> lastOp.isCompleted]
              /\ \A j \in DOMAIN prev \ {k} : todos.arr[j] = prev[j]

\* C5: once a mutation has been processed (no render or save outstanding),
\* decoding the slot "todos" gives the in-memory list.
SlotMirrorsTodos ==
    pc = "idle" =>
        /\ slot.present
        /\ JSONparse(slot).ok
        /\ JSONparse(slot).val = todos

SlotMirrorsTodosWitness ==
    /\ pc = "idle"
    /\ lastOp.op = "delete"
    /\ Len(prev) = 1
    /\ todos.arr = <<>>
    /\ slot.text = << Tok("["), Tok("]") >>

MalformedSlotTolerated ==
    (stored.kind \in {"nonjson", "null", "number", "string", "emptystring", "object"}
        /\ pc # "mount_load") =>
        /\ pc # "crashed"
        /\ todos = JsArray(<<>>)

\* C8: a list serialised to the slot and loaded back at startup is equal by
\* value to the original: same length, same order, same id, text and
\* isCompleted per record; the empty list included.
RoundTrip ==
    (stored.kind = "list" /\ pc # "mount_load") =>
        /\ pc # "crashed"
        /\ todos.kind = "array"
        /\ Len(todos.arr) = Len(stored.list)
        /\ \A i \in 1..Len(stored.list) :
              /\ todos.arr[i].id = stored.list[i].id
              /\ todos.arr[i].msg = stored.list[i].msg
              /\ todos.arr[i].isCompleted = stored.list[i].isCompleted

RoundTripWitness ==
    /\ pc = "mount_save"
    /\ stored.kind = "list"
    /\ Len(stored.list) = 2
    /\ stored.list[1].isCompleted
    /\ ~stored.list[2].isCompleted
    /\ todos.arr = stored.list

\* C9: update and toggleComplete with an id that matches no record never
\* fail and leave the in-memory list, and with it the persisted list, as it
\* was before the call.
UnknownIdIsNoOp ==
    (lastOp.op \in {"update", "toggle"} /\ ~HasId(prev, lastOp.id)) =>
        /\ pc # "crashed"
        /\ todos = JsArray(prev)
        /\ pc = "idle" => JSONparse(slot) = Parsed(JsArray(prev))

UnknownIdIsNoOpWitness ==
    /\ lastOp.op = "update"
    /\ ~HasId(prev, lastOp.id)
    /\ Len(prev) >= 1
    /\ pc = "idle"
    /\ todos.arr = prev

----------------------------------------------------------------------------
(* Properties of the authentication demo (checked under SpecAuth) *)

\* C10: a submit sets the context user to the username field; Profile shows
\* the welcome message for that user exactly when the user is set and
\* non-empty and "Please Login" otherwise, in particular before any submit
\* and after a submit with an empty username.
LoginProfile ==
    /\ submitted.done => user = JsString(submitted.name)
    /\ ~submitted.done => profile = PleaseLogin
    /\ (submitted.done /\ submitted.name = "") => profile = PleaseLogin
    /\ (submitted.done /\ submitted.name # "") => profile = Welcome(submitted.name)
    /\ profile = IF user.kind = "string" /\ user.str # ""
                 THEN Welcome(user.str) ELSE PleaseLogin

LoginProfileWitness ==
    /\ submitted.done
    /\ submitted.name = ""
    /\ username = "a"
    /\ profile = PleaseLogin

----------------------------------------------------------------------------
(* Properties of the theme switcher (checked under SpecTheme) *)

\* C11: below the provider, after any sequence of toggle changes themeMode
\* is "dark" iff the last change checked the box (darkMode() was called for
\* a checked box, lightMode() for an unchecked one), and the checkbox is
\* rendered checked iff themeMode is "dark".
ToggleFollowsLastChange ==
    provided =>
        /\ changes # <<>> => (themeMode = "dark" <=> changes[Len(changes)])
        /\ changes # <<>> => (themeMode = "light" <=> ~changes[Len(changes)])
        /\ checkbox <=> themeMode = "dark"

ToggleFollowsLastChangeWitness ==
    /\ provided
    /\ Len(changes) >= 3
    /\ changes[Len(changes)]
    /\ ~changes[Len(changes) - 1]
    /\ themeMode = "dark"
    /\ checkbox

\* C12: once the theme effect has processed a change of themeMode, the html
\* element carries exactly one of the classes "light" and "dark", the one
\* equal to themeMode; the two classes are never both present.
HtmlClassIsTheme ==
    /\ ~themePending => htmlClass \cap {"light", "dark"} = {themeMode}
    /\ ~({"light", "dark"} \subseteq htmlClass)

HtmlClassIsThemeWitness ==
    /\ ~themePending
    /\ Len(changes) >= 2
    /\ changes[Len(changes) - 1]
    /\ ~changes[Len(changes)]
    /\ htmlClass = {"light"}

\* C14: the context default themeMode is "light", and the themeMode a
\* consumer of useTheme() observes is always "light" or "dark", a consumer
\* without a provider value included.
ThemeModeLightOrDark ==
    /\ themeContext.themeMode = "light"
    /\ useTheme(provided, themeMode).themeMode \in {"light", "dark"}

----------------------------------------------------------------------------
(* Identity of the records (checked under Spec) *)

\* C13: no two records of the list have the same id: the ids add assigns
\* (the current time) are unique for the session, also for two adds within
\* one clock tick and after a list was loaded from the slot.
UniqueIds ==
    todos.kind = "array" =>
        \A i, j \in DOMAIN todos.arr :
            todos.arr[i].id = todos.arr[j].id => i = j

----------------------------------------------------------------------------
(* Startup and the persisted list (checked under SpecMount) *)

NonEmptyStored == stored.kind = "list" /\ stored.list # <<>>

\* C16 as stated: with a non-empty list P in the slot at mount and no
\* mutation, the mount-time save effect does not leave the slot empty, and
\* once the mount effects have all run the slot decodes to P and the
\* in-memory list is P, also when the mount effects run twice.
StartupNeverEmptiesSlot ==
    NonEmptyStored =>
        /\ JSONparse(slot).ok
        /\ JSONparse(slot).val # JsArray(<<>>)
        /\ (pc = "idle" /\ ~remount) =>
               /\ JSONparse(slot) = Parsed(JsArray(stored.list))
               /\ todos = JsArray(stored.list)

\* C16 as amended: the mount-time save effect overwrites the slot with the
\* empty list while the in-memory list is already P; once the re-render that
\* follows and its save effect have run, the slot decodes to P again and the
\* in-memory list is P, also when the mount effects run twice.
StartupRestoresSlot ==
    NonEmptyStored =>
        /\ pc # "crashed"
        /\ reads >= 1 => todos = JsArray(stored.list)
        /\ pc \in {"rerender", "effects"} => JSONparse(slot) = Parsed(JsArray(<<>>))
        /\ pc = "idle" =>
               /\ ~remount
               /\ JSONparse(slot) = Parsed(JsArray(stored.list))
               /\ todos = JsArray(stored.list)

StartupRestoresSlotWitness ==
    /\ NonEmptyStored
    /\ Len(stored.list) = 2
    /\ pc = "idle"
    /\ reads = 2
    /\ slot = Item(JSONstringify(JsArray(stored.list)))
    /\ todos.arr = stored.list

----------------------------------------------------------------------------
(* Order of the operations (checked under SpecBatch) *)

\* the operations applied one after another, the last one last
RECURSIVE OneAfterAnother(_, _)
OneAfterAnother(list, ops) ==
    IF ops = <<>> THEN list
    ELSE Updater(ops[Len(ops)], OneAfterAnother(list, SubSeq(ops, 1, Len(ops) - 1)))

====
